---- MODULE Spec2Model ----
(***************************************************************************)
(* A model of batch_shrink.py: the job runner (main), the per-file         *)
(* pipeline run by the worker pool (process_one, decode_image, downscale,  *)
(* _save_as_jpeg, _save_as_heif) and the capability check (_require_heif). *)
(***************************************************************************)
EXTENDS Integers, Sequences, FiniteSets, TLC

(***************************************************************************)
(* Bounds of the model.                                                    *)
(***************************************************************************)
\* Largest width, height and --max-edge drawn for downscale on its own.
MaxDim == 23
\* Most entries of the input directory tree.
MaxFiles == 2
\* Largest --workers.
MaxWorkers == 2
\* The --max-edge of the modelled jobs.
ArgMaxEdge == 6

(***************************************************************************)
(* IEEE 754 binary64 arithmetic, as far as downscale uses it.  A positive  *)
(* double is held as (top + frac / 2^52) / 2^exp, where frac is the 52     *)
(* fraction bits in LimbCount limbs of LimbBits bits, most significant     *)
(* first.  No integer handled here exceeds 31 bits.                        *)
(***************************************************************************)
LimbBits  == 13
LimbCount == 4

RECURSIVE Pow2(_)
Pow2(n) == IF n = 0 THEN 1 ELSE 2 * Pow2(n - 1)

LimbBase == Pow2(LimbBits)

RECURSIVE BitLen(_)
BitLen(n) == IF n = 0 THEN 0 ELSE 1 + BitLen(n \div 2)

Max2(a, b) == IF a >= b THEN a ELSE b

\* The least k >= 0 with m * 2^k >= l, and m * 2^k itself.
RECURSIVE NormShift(_, _, _)
NormShift(m, l, k) ==
    IF m >= l THEN <<k, m>> ELSE NormShift(2 * m, l, k + 1)

\* Long division: n more limbs of the quotient r / l (r < l), then the
\* remainder.
RECURSIVE DivLimbs(_, _, _, _)
DivLimbs(r, l, n, acc) ==
    IF n = 0 THEN <<acc, r>>
    ELSE LET t == r * LimbBase
         IN  DivLimbs(t % l, l, n - 1, Append(acc, t \div l))

\* limbs + 1 at limb i: the limbs and whether a carry left the top limb.
RECURSIVE IncLimbs(_, _)
IncLimbs(limbs, i) ==
    IF i = 0 THEN [limbs |-> limbs, carry |-> TRUE]
    ELSE IF limbs[i] + 1 < LimbBase
         THEN [limbs |-> [limbs EXCEPT ![i] = limbs[i] + 1], carry |-> FALSE]
         ELSE IncLimbs([limbs EXCEPT ![i] = 0], i - 1)

\* limbs * w for a small integer w: the limbs and the carry out of the top.
RECURSIVE MulLimbs(_, _, _, _)
MulLimbs(limbs, w, i, carry) ==
    IF i = 0 THEN [limbs |-> limbs, carry |-> carry]
    ELSE LET t == limbs[i] * w + carry
         IN  MulLimbs([limbs EXCEPT ![i] = t % LimbBase], w, i - 1,
                      t \div LimbBase)

\* max_edge / max(w, h) in binary64, for 1 <= m < l: the quotient rounded to
\* nearest, ties to even, at 53 significant bits.
FloatDiv(m, l) ==
    LET ns     == NormShift(m, l, 0)
        q      == DivLimbs(ns[2] - l, l, LimbCount, <<>>)
        g      == 2 * q[2]
        guard  == g >= l
        sticky == (IF guard THEN g - l ELSE g) # 0
        up     == guard /\ (sticky \/ q[1][LimbCount] % 2 = 1)
        inc    == IncLimbs(q[1], LimbCount)
    IN  IF ~up THEN [top |-> 1, frac |-> q[1], exp |-> ns[1]]
        ELSE IF inc.carry THEN [top |-> 2, frac |-> inc.limbs, exp |-> ns[1]]
        ELSE [top |-> 1, frac |-> inc.limbs, exp |-> ns[1]]

\* w * x in binary64 (x.top = 1 or 2 with a zero fraction): the exact product
\* rounded to nearest, ties to even, at 53 significant bits.
FloatMulInt(w, x) ==
    LET p      == MulLimbs(x.frac, w, LimbCount, 0)
        top    == x.top * w + p.carry
        drop   == BitLen(top) - 1
        last   == p.limbs[LimbCount]
        low    == last % Pow2(drop)
        half   == IF drop = 0 THEN 1 ELSE Pow2(drop - 1)
        guard  == drop > 0 /\ low >= half
        sticky == drop > 0 /\ low % half # 0
        up     == guard /\ (sticky \/ (last \div Pow2(drop)) % 2 = 1)
        kept   == [p.limbs EXCEPT ![LimbCount] = last - low]
        bumped == kept[LimbCount] + Pow2(drop)
        inc    == IF bumped < LimbBase
                  THEN [limbs |-> [kept EXCEPT ![LimbCount] = bumped],
                        carry |-> FALSE]
                  ELSE IncLimbs([kept EXCEPT ![LimbCount] = 0], LimbCount - 1)
    IN  IF ~up THEN [top |-> top, frac |-> kept, exp |-> x.exp]
        ELSE [top |-> top + (IF inc.carry THEN 1 ELSE 0), frac |-> inc.limbs,
              exp |-> x.exp]

\* int(x) for a positive double: truncation toward zero.
FloatToInt(x) == x.top \div Pow2(x.exp)

(***************************************************************************)
(* downscale(img, max_edge): the new size of the raster.                   *)
(***************************************************************************)
downscale(w, h, max_edge) ==
    IF Max2(w, h) <= max_edge THEN <<w, h>>
    ELSE LET scale == FloatDiv(max_edge, Max2(w, h))
         IN  <<Max2(1, FloatToInt(FloatMulInt(w, scale))),
               Max2(1, FloatToInt(FloatMulInt(h, scale)))>>

(***************************************************************************)
(* Module-level constants of batch_shrink.py.                              *)
(***************************************************************************)
SUPPORTED_IN == {".jpg", ".jpeg", ".png", ".heic", ".heif", ".hif", ".hifc",
                 ".arw"}

HEIF_EXTS == {".heic", ".heif", ".hif", ".hifc"}

\* str.lower() on the strings that occur.
Lower(s) ==
    CASE s = ".JPG" -> ".jpg"
      [] s = "White" -> "white"
      [] s = "BLACK" -> "black"
      [] OTHER -> s

(***************************************************************************)
(* Exceptions.  An exception is its type, what it reports and the repr of  *)
(* the underlying error its message quotes ("" when it quotes none).       *)
(***************************************************************************)
NoError == [type |-> "", what |-> "", last |-> ""]

Exc(type, what, last) == [type |-> type, what |-> what, last |-> last]

\* _require_heif(reason): the exception it raises, NoError when it returns.
_require_heif(enabled, reason) ==
    IF enabled THEN NoError ELSE Exc("RuntimeError", reason, "")

(***************************************************************************)
(* The input tree.  An entry is a path with what the external decoders     *)
(* make of the file and whether the external encoders can write its        *)
(* raster; the jobs draw their input directory from this catalogue.        *)
(***************************************************************************)
Path(dir, stem, ext) == [dir |-> dir, stem |-> stem, ext |-> ext]

NoPath == Path("", "", "")

Catalogue ==
    << [path |-> Path("a", "x", ".JPG"), corrupt |-> FALSE, mode |-> "RGB",
        transparency |-> FALSE, w |-> 8, h |-> 6, bytes |-> 60,
        exif |-> TRUE, unwritable |-> FALSE],
       [path |-> Path("b", "x", ".png"), corrupt |-> FALSE, mode |-> "RGBA",
        transparency |-> FALSE, w |-> 2, h |-> 2, bytes |-> 9,
        exif |-> FALSE, unwritable |-> FALSE],
       [path |-> Path("b", "y", ".arw"), corrupt |-> TRUE, mode |-> "RGB",
        transparency |-> FALSE, w |-> 8, h |-> 6, bytes |-> 70,
        exif |-> FALSE, unwritable |-> FALSE],
       [path |-> Path("c", "z", ".hif"), corrupt |-> FALSE, mode |-> "L",
        transparency |-> FALSE, w |-> 4, h |-> 8, bytes |-> 20,
        exif |-> TRUE, unwritable |-> FALSE],
       [path |-> Path("c", "v", ".jpeg"), corrupt |-> FALSE, mode |-> "P",
        transparency |-> TRUE, w |-> 3, h |-> 3, bytes |-> 12,
        exif |-> FALSE, unwritable |-> TRUE],
       [path |-> Path("c", "n", ".txt"), corrupt |-> FALSE, mode |-> "RGB",
        transparency |-> FALSE, w |-> 1, h |-> 1, bytes |-> 1,
        exif |-> FALSE, unwritable |-> FALSE] >>

RECURSIVE SeqOfIndices(_, _)
SeqOfIndices(S, i) ==
    IF i > Len(Catalogue) THEN <<>>
    ELSE (IF i \in S THEN <<Catalogue[i]>> ELSE <<>>) \o SeqOfIndices(S, i + 1)

\* The directory trees of at most MaxFiles entries, in walk order.
Trees ==
    {SeqOfIndices(S, 1) :
        S \in {T \in SUBSET (1..Len(Catalogue)) : Cardinality(T) <= MaxFiles}}

(***************************************************************************)
(* The external encoders.  A save call either returns or raises, and       *)
(* leaves no file, an empty file or a file with data at the destination.   *)
(***************************************************************************)
SaveResults == [raised : BOOLEAN, wrote : {"none", "empty", "data"}]

SaveOk == [raised |-> FALSE, wrote |-> "data"]

SaveRaises == [raised |-> TRUE, wrote |-> "none"]

Codecs ==
    [JPEG : SaveResults, HEIF : SaveResults, HEIC : SaveResults,
     from_pillow : SaveResults, has_from_pillow : BOOLEAN]

CodecOk ==
    [JPEG |-> SaveOk, HEIF |-> SaveOk, HEIC |-> SaveOk, from_pillow |-> SaveOk,
     has_from_pillow |-> TRUE]

\* The output files: the flat output directory holds <stem><suffix>.
Stems == {Catalogue[i].path.stem : i \in 1..Len(Catalogue)}

OutNames == [stem : Stems, ext : {".jpg", ".heic"}]

Absent == [by |-> NoPath, bytes |-> -1]

\* A file that was in the output directory before the job.
OldFile == [by |-> Path("old", "", ""), bytes |-> 7]

(***************************************************************************)
(* --bg as its comma-separated fields: an integer literal or other text.   *)
(***************************************************************************)
IntField(n) == [int |-> TRUE, val |-> n, text |-> ""]

TextField(t) == [int |-> FALSE, val |-> 0, text |-> t]

BgValues ==
    { <<TextField("white")>>, <<TextField("BLACK")>>,
      <<IntField(1), IntField(2), IntField(3)>>,
      <<IntField(10), IntField(20)>>,
      <<IntField(0), IntField(0), IntField(256)>>,
      <<IntField(-1), IntField(0), IntField(0), IntField(0)>>,
      <<TextField("x"), IntField(0), IntField(0)>> }

BgWhite == <<TextField("white")>>

(***************************************************************************)
(* State.                                                                  *)
(***************************************************************************)
VARIABLES
    args,             \* the parsed command line
    HEIF_ENABLED,     \* pillow_heif imported and registered
    piexif_ok,        \* `import piexif` succeeds
    codec,            \* what the installed encoders do on a save
    in_dir,           \* the input tree, in walk order
    out_dir_exists,   \* the output directory exists
    fs,               \* the files of the output directory
    fs0,              \* the files of the output directory as the job found it
    out_dir_existed,  \* the output directory existed when the job started
    pc,               \* where main is
    exit_code,        \* the process exit status, -1 while running
    exit_reason,      \* what ended main
    bg_rgb,           \* main's bg_rgb
    inputs,           \* main's inputs
    task,             \* the submitted process_one calls, by input index
    before_sum,       \* main's before_sum
    after_sum,        \* main's after_sum
    errors,           \* main's errors
    collected,        \* the futures as_completed has yielded, in order
    ds                \* downscale applied on its own

vars ==
    <<args, HEIF_ENABLED, piexif_ok, codec, in_dir, out_dir_exists, fs, fs0,
      out_dir_existed, pc, exit_code, exit_reason, bg_rgb, inputs, task, before_sum, after_sum,
      errors, collected, ds>>

envVars ==
    <<args, HEIF_ENABLED, piexif_ok, codec, in_dir, fs0, out_dir_existed>>

mainVars ==
    <<pc, exit_code, exit_reason, bg_rgb, inputs, before_sum, after_sum,
      errors, collected>>

(***************************************************************************)
(* main: validation.                                                       *)
(***************************************************************************)
\* The status of a Python process ended by an uncaught exception (line 80:
\* nothing in main catches the RuntimeError of _require_heif).
UncaughtExceptionStatus == 1

\* The statuses main exits with; it returns, status 0, when nothing failed.
ExitNoInputs == 1

ExitInvalidBg == 2

ExitPiexifMissing == 3

ExitErrors == 10

ExitSuccess == 0

\* Lines 310-322: bg_rgb, or invalid (main prints and exits 2).
ParseBgNoCount(bg) ==
    IF Len(bg) = 1 /\ ~bg[1].int /\ Lower(bg[1].text) = "white"
    THEN [ok |-> TRUE, rgb |-> <<255, 255, 255>>]
    ELSE IF Len(bg) = 1 /\ ~bg[1].int /\ Lower(bg[1].text) = "black"
    THEN [ok |-> TRUE, rgb |-> <<0, 0, 0>>]
    ELSE IF \E i \in 1..Len(bg) : ~bg[i].int
    THEN [ok |-> FALSE, rgb |-> <<>>]
    ELSE IF \E i \in 1..Len(bg) : ~(0 <= bg[i].val /\ bg[i].val <= 255)
    THEN [ok |-> FALSE, rgb |-> <<>>]
    ELSE [ok |-> TRUE, rgb |-> [i \in 1..Len(bg) |-> bg[i].val]]

ParseBg(bg) ==
    IF Len(bg) = 1 /\ ~bg[1].int /\ Lower(bg[1].text) = "white"
    THEN [ok |-> TRUE, rgb |-> <<255, 255, 255>>]
    ELSE IF Len(bg) = 1 /\ ~bg[1].int /\ Lower(bg[1].text) = "black"
    THEN [ok |-> TRUE, rgb |-> <<0, 0, 0>>]
    ELSE IF \E i \in 1..Len(bg) : ~bg[i].int
    THEN [ok |-> FALSE, rgb |-> <<>>]
    ELSE IF Len(bg) # 3
            \/ \E i \in 1..Len(bg) : ~(0 <= bg[i].val /\ bg[i].val <= 255)
    THEN [ok |-> FALSE, rgb |-> <<>>]
    ELSE [ok |-> TRUE, rgb |-> <<bg[1].val, bg[2].val, bg[3].val>>]

\* walk_inputs(in_dir): the paths with a supported suffix, in walk order.
RECURSIVE walk_inputs(_)
walk_inputs(tree) ==
    IF tree = <<>> THEN <<>>
    ELSE (IF Lower(Head(tree).path.ext) \in SUPPORTED_IN
          THEN <<Head(tree).path>> ELSE <<>>) \o walk_inputs(Tail(tree))

\* Lines 330-337: the piexif check fails.
PiexifMissing ==
    args.out_format = "jpg" /\ ~args.strip /\ args.keep_orientation_only
    /\ ~piexif_ok

\* Lines 369-375: the status main ends with after the pool is done.
FinalStatusIgnoringErrors(errs) == ExitSuccess

FinalStatus(errs) == IF errs # <<>> THEN ExitErrors ELSE ExitSuccess

(***************************************************************************)
(* process_one and what it calls, as functions of the task and the output  *)
(* directory.  A step gives the task after it, the files after it and      *)
(* whether it created the output directory.                                *)
(***************************************************************************)
File(p) == Catalogue[CHOOSE i \in 1..Len(Catalogue) : Catalogue[i].path = p]

NoErr == [in_path |-> NoPath, cause |-> NoError]

NoImg == [w |-> 0, h |-> 0, mode |-> ""]

\* A submitted call that no worker has taken yet.
NewTask(p) ==
    [in_path |-> p, pc |-> "pending", img |-> NoImg, before |-> 0, fmt |-> 1,
     last_err |-> NoError, attempts |-> <<>>, saw_exists |-> FALSE,
     decoded |-> FALSE, writes |-> 0, raised |-> NoError,
     result |-> [in_path |-> NoPath, before |-> 0, after |-> 0, err |-> NoErr]]

\* Lines 228-234: out_p, as the name in the output directory.
OutName(p) ==
    [stem |-> p.stem, ext |-> IF args.out_format = "jpg" THEN ".jpg" ELSE ".heic"]

\* Line 235: the file is skipped.
ShouldSkipIgnoringOverwrite(overwrite, exists) == exists

ShouldSkip(overwrite, exists) == (~overwrite) /\ exists

\* Line 236: the outcome of a skipped file.
SkipOutcome(p) == [in_path |-> p, before |-> 0, after |-> 0, err |-> NoErr]

\* Line 260: the outcome of a file that went through.
OkOutcome(p, before, after) ==
    [in_path |-> p, before |-> before, after |-> after, err |-> NoErr]

\* Line 262: the outcome of a file whose pipeline raised e.
ErrorOutcomeSwallowed(p, e) ==
    [in_path |-> p, before |-> 0, after |-> 0, err |-> NoErr]

ErrorOutcome(p, e) ==
    [in_path |-> p, before |-> 0, after |-> 0,
     err |-> [in_path |-> p, cause |-> e]]

\* The except clause of process_one: e was raised inside the try block.
Caught(t, e) ==
    [t EXCEPT !.pc = "done", !.raised = e, !.result = ErrorOutcome(t.in_path, e)]

Same(t, files) == [t |-> t, fs |-> files, mkdir |-> FALSE]

\* _composite_alpha_to_rgb: the mode of the raster it returns.
_composite_alpha_to_rgb(mode, transparency) ==
    IF mode \in {"RGBA", "LA"} THEN "RGB"
    ELSE IF mode = "P" THEN "RGB"
    ELSE IF mode \notin {"RGB", "L"} THEN "RGB"
    ELSE mode

\* decode_image(path): the exception it raises (NoError when it returns) and
\* the raster.
decode_image(p) ==
    LET f   == File(p)
        ext == Lower(p.ext)
        img == [w |-> f.w, h |-> f.h,
                mode |-> _composite_alpha_to_rgb(f.mode, f.transparency)]
    IN  IF ext = ".arw"
        THEN IF f.corrupt
             THEN [exc |-> Exc("LibRawError", "imread", ""), img |-> NoImg]
             ELSE [exc |-> NoError, img |-> img]
        ELSE IF ext \in HEIF_EXTS /\ ~HEIF_ENABLED
        THEN [exc |-> _require_heif(HEIF_ENABLED,
                                    "Failed to decode HEIF/HIF input file."),
              img |-> NoImg]
        ELSE IF f.corrupt
        THEN [exc |-> Exc("UnidentifiedImageError", "open", ""), img |-> NoImg]
        ELSE [exc |-> NoError, img |-> img]

\* The size of the file an encoder writes for a raster: one byte a pixel.
EncodedBytes(img) == img.w * img.h

\* What a save of task t's raster by `strategy` does.
SaveOutcome(t, strategy) ==
    IF File(t.in_path).unwritable THEN SaveRaises ELSE codec[strategy]

\* The output directory after that save.
Written(t, files, r) ==
    IF r.wrote = "none" THEN files
    ELSE [files EXCEPT ![OutName(t.in_path)] =
            [by |-> t.in_path,
             bytes |-> IF r.wrote = "empty" THEN 0 ELSE EncodedBytes(t.img)]]

CountWrite(t, r) ==
    [t EXCEPT !.writes = t.writes + (IF r.wrote = "none" THEN 0 ELSE 1)]

\* Lines 226-236: out_p and the exists check.
ProcessOneCheck(t, files) ==
    LET exists == files[OutName(t.in_path)] # Absent
        seen   == [t EXCEPT !.saw_exists = exists]
    IN  IF ShouldSkip(args.overwrite, exists)
        THEN Same([seen EXCEPT !.pc = "done",
                               !.result = SkipOutcome(t.in_path)], files)
        ELSE Same([seen EXCEPT !.pc = "decode"], files)

\* Lines 239-243: decode, downscale, makedirs and the size of the input.
ProcessOneDecode(t, files) ==
    LET d  == decode_image(t.in_path)
        nd == downscale(d.img.w, d.img.h, args.max_edge)
    IN  IF d.exc # NoError THEN Same(Caught(t, d.exc), files)
        ELSE [t |-> [t EXCEPT !.decoded = TRUE,
                              !.img = [w |-> nd[1], h |-> nd[2],
                                       mode |-> d.img.mode],
                              !.before = File(t.in_path).bytes,
                              !.pc = IF args.out_format = "jpg"
                                     THEN "save_jpeg" ELSE "save_heif"],
              fs |-> files, mkdir |-> TRUE]

\* _keep_only_orientation_exif raises: piexif cannot be imported.
KeepOrientationRaises(t) ==
    (~args.strip) /\ args.keep_orientation_only /\ File(t.in_path).exif
    /\ ~piexif_ok

\* Lines 245-252: _save_as_jpeg.
SaveAsJpeg(t, files) ==
    LET r == SaveOutcome(t, "JPEG")
        w == CountWrite([t EXCEPT !.attempts = Append(t.attempts, "JPEG")], r)
    IN  IF KeepOrientationRaises(t)
        THEN Same(Caught(t, Exc("RuntimeError", "piexif", "")), files)
        ELSE IF r.raised
        THEN Same(Caught(w, Exc("OSError", "JPEG", "")), Written(t, files, r))
        ELSE Same([w EXCEPT !.pc = "size"], Written(t, files, r))

\* Lines 175-178: _save_as_heif requires the capability and converts to RGB.
SaveAsHeifRequire(t, files) ==
    LET e == _require_heif(HEIF_ENABLED, "Failed to encode HEIF output file.")
    IN  IF e # NoError THEN Same(Caught(t, e), files)
        ELSE Same([t EXCEPT !.img.mode = "RGB", !.pc = "heif_fmt"], files)

\* Line 183: the format identifiers tried, in order.
HeifFormatsSwapped == <<"HEIC", "HEIF">>

HeifFormats == <<"HEIF", "HEIC">>

\* Lines 183-188: one round of the loop over the format identifiers.
SaveAsHeifFmt(t, files) ==
    LET fmt == HeifFormats[t.fmt]
        r   == SaveOutcome(t, fmt)
        w   == CountWrite([t EXCEPT !.attempts = Append(t.attempts, fmt)], r)
    IN  IF ~r.raised THEN Same([w EXCEPT !.pc = "size"], Written(t, files, r))
        ELSE Same([w EXCEPT !.last_err = Exc("OSError", fmt, ""),
                            !.fmt = t.fmt + 1,
                            !.pc = IF t.fmt = Len(HeifFormats)
                                   THEN "heif_alt" ELSE "heif_fmt"],
                  Written(t, files, r))

\* Lines 202-209: the error _save_as_heif ends with.
HeifUnsupported(last_err) ==
    Exc("RuntimeError", "HEIF encoding is not supported", last_err.what)

\* Lines 191-209: pillow_heif.from_pillow when there is one, else the error.
SaveAsHeifAlt(t, files) ==
    LET r == SaveOutcome(t, "from_pillow")
        w == CountWrite(
                 [t EXCEPT !.attempts = Append(t.attempts, "from_pillow")], r)
    IN  IF ~codec.has_from_pillow
        THEN Same(Caught(t, HeifUnsupported(t.last_err)), files)
        ELSE IF ~r.raised
        THEN Same([w EXCEPT !.pc = "size"], Written(t, files, r))
        ELSE Same(Caught([w EXCEPT !.last_err = Exc("OSError", "from_pillow", "")],
                         HeifUnsupported(Exc("OSError", "from_pillow", ""))),
                  Written(t, files, r))

\* Lines 257-260: the size check.
ProcessOneSize(t, files) ==
    LET out   == files[OutName(t.in_path)]
        after == IF out # Absent THEN out.bytes ELSE 0
    IN  IF after = 0
        THEN Same(Caught(t, Exc("RuntimeError",
                                "Output file not created or size is 0.", "")),
                  files)
        ELSE Same([t EXCEPT !.pc = "done",
                            !.result = OkOutcome(t.in_path, t.before, after)],
                  files)

\* The step of process_one a task is at.
StepOf(t, files) ==
    CASE t.pc = "pending"   -> ProcessOneCheck(t, files)
      [] t.pc = "decode"    -> ProcessOneDecode(t, files)
      [] t.pc = "save_jpeg" -> SaveAsJpeg(t, files)
      [] t.pc = "save_heif" -> SaveAsHeifRequire(t, files)
      [] t.pc = "heif_fmt"  -> SaveAsHeifFmt(t, files)
      [] t.pc = "heif_alt"  -> SaveAsHeifAlt(t, files)
      [] t.pc = "size"      -> ProcessOneSize(t, files)
      [] OTHER              -> Same(t, files)

\* process_one(in_path, ...) run from start to end on its own.
RECURSIVE RunToEnd(_, _)
RunToEnd(t, files) ==
    IF t.pc = "done" THEN Same(t, files)
    ELSE LET r == StepOf(t, files) IN RunToEnd(r.t, r.fs)

process_one(p, files) == RunToEnd(NewTask(p), files)

(***************************************************************************)
(* The jobs checked.                                                       *)
(***************************************************************************)
Args(out_format, bg, strip, keep, overwrite, workers) ==
    [out_format |-> out_format, bg |-> bg, strip |-> strip,
     keep_orientation_only |-> keep, overwrite |-> overwrite,
     workers |-> workers, max_edge |-> ArgMaxEdge]

\* Every combination of the options the validation reads, over every tree,
\* with encoders that work and no output directory yet.
OptionJobs ==
    { [args |-> Args(f, bg, s, k, FALSE, MaxWorkers), heif |-> he,
       piexif |-> px, codec |-> CodecOk, tree |-> tr, outdir |-> "absent"] :
        f \in {"heif", "jpg"}, bg \in BgValues, s \in BOOLEAN, k \in BOOLEAN,
        he \in BOOLEAN, px \in BOOLEAN, tr \in Trees }

\* JPEG jobs with valid options: every tree, every behaviour of the JPEG
\* encoder, every state of the output directory, with and without
\* --overwrite, every --workers.
PoolJobs ==
    { [args |-> Args("jpg", BgWhite, FALSE, FALSE, ov, n), heif |-> he,
       piexif |-> TRUE, codec |-> [CodecOk EXCEPT !.JPEG = r], tree |-> tr,
       outdir |-> od] :
        ov \in BOOLEAN, n \in 1..MaxWorkers, he \in BOOLEAN,
        r \in SaveResults, tr \in Trees,
        od \in {"absent", "empty", "old"} }

\* HEIF jobs on one file: every behaviour of every HEIF encode strategy.
HeifJobs ==
    { [args |-> Args("heif", BgWhite, FALSE, FALSE, ov, 1), heif |-> TRUE,
       piexif |-> TRUE, codec |-> c, tree |-> <<Catalogue[1]>>,
       outdir |-> od] :
        ov \in BOOLEAN, c \in {d \in Codecs : d.JPEG = SaveOk},
        od \in {"absent", "old"} }

OutDir(od) ==
    [n \in OutNames |-> IF od = "old" /\ n.stem = "x" THEN OldFile ELSE Absent]

Start(job) ==
    /\ args = job.args
    /\ HEIF_ENABLED = job.heif
    /\ piexif_ok = job.piexif
    /\ codec = job.codec
    /\ in_dir = job.tree
    /\ out_dir_exists = (job.outdir # "absent")
    /\ fs = OutDir(job.outdir)
    /\ fs0 = OutDir(job.outdir)
    /\ out_dir_existed = (job.outdir # "absent")
    /\ pc = "require_heif"
    /\ exit_code = -1
    /\ exit_reason = "running"
    /\ bg_rgb = <<>>
    /\ inputs = <<>>
    /\ task = <<>>
    /\ before_sum = 0
    /\ after_sum = 0
    /\ errors = <<>>
    /\ collected = <<>>
    /\ ds = [w |-> 1, h |-> 1, max_edge |-> 1, out |-> <<>>]

Init == \E job \in OptionJobs \cup PoolJobs \cup HeifJobs : Start(job)

(***************************************************************************)
(* main.                                                                   *)
(***************************************************************************)
Exit(code, reason) ==
    /\ pc' = "exit"
    /\ exit_code' = code
    /\ exit_reason' = reason

\* Lines 305-307.
MainRequireHeif ==
    /\ pc = "require_heif"
    /\ IF args.out_format = "heif"
          /\ _require_heif(HEIF_ENABLED, "HEIF support is unavailable.") # NoError
       THEN Exit(UncaughtExceptionStatus, "heif_unavailable")
       ELSE pc' = "parse_bg" /\ UNCHANGED <<exit_code, exit_reason>>
    /\ UNCHANGED <<envVars, out_dir_exists, fs, bg_rgb, inputs, task,
                   before_sum, after_sum, errors, collected, ds>>

\* Lines 309-322.
MainParseBg ==
    /\ pc = "parse_bg"
    /\ LET r == ParseBg(args.bg)
       IN  IF r.ok
           THEN /\ bg_rgb' = r.rgb
                /\ pc' = "walk"
                /\ UNCHANGED <<exit_code, exit_reason>>
           ELSE /\ Exit(ExitInvalidBg, "invalid_bg")
                /\ UNCHANGED bg_rgb
    /\ UNCHANGED <<envVars, out_dir_exists, fs, inputs, task, before_sum,
                   after_sum, errors, collected, ds>>

\* Lines 324-327.
MainWalk ==
    /\ pc = "walk"
    /\ inputs' = walk_inputs(in_dir)
    /\ IF inputs' = <<>>
       THEN Exit(ExitNoInputs, "no_inputs")
       ELSE pc' = "check_piexif" /\ UNCHANGED <<exit_code, exit_reason>>
    /\ UNCHANGED <<envVars, out_dir_exists, fs, bg_rgb, task, before_sum,
                   after_sum, errors, collected, ds>>

\* Lines 329-337.
MainCheckPiexif ==
    /\ pc = "check_piexif"
    /\ IF PiexifMissing
       THEN Exit(ExitPiexifMissing, "piexif_missing")
       ELSE pc' = "submit" /\ UNCHANGED <<exit_code, exit_reason>>
    /\ UNCHANGED <<envVars, out_dir_exists, fs, bg_rgb, inputs, task,
                   before_sum, after_sum, errors, collected, ds>>

\* Lines 341-359: one future per input, in the order of inputs.
MainSubmit ==
    /\ pc = "submit"
    /\ task' = [i \in 1..Len(inputs) |-> NewTask(inputs[i])]
    /\ pc' = "collect"
    /\ UNCHANGED <<envVars, out_dir_exists, fs, exit_code, exit_reason, bg_rgb,
                   inputs, before_sum, after_sum, errors, collected, ds>>

\* Lines 361-367: as_completed yields a finished future; the last one ends
\* the with block.
MainCollect(i) ==
    /\ pc = "collect"
    /\ task[i].pc = "done"
    /\ \A k \in 1..Len(collected) : collected[k] # i
    /\ LET r == task[i].result
       IN  IF r.err # NoErr
           THEN /\ errors' = Append(errors, r.err)
                /\ UNCHANGED <<before_sum, after_sum>>
           ELSE /\ before_sum' = before_sum + r.before
                /\ after_sum' = after_sum + r.after
                /\ UNCHANGED errors
    /\ collected' = Append(collected, i)
    /\ pc' = IF Len(collected') = Len(task) THEN "report" ELSE "collect"
    /\ UNCHANGED <<envVars, out_dir_exists, fs, exit_code, exit_reason, bg_rgb,
                   inputs, task, ds>>

\* Lines 369-382.
MainReport ==
    /\ pc = "report"
    /\ Exit(FinalStatus(errors), IF errors # <<>> THEN "errors" ELSE "success")
    /\ UNCHANGED <<envVars, out_dir_exists, fs, bg_rgb, inputs, task,
                   before_sum, after_sum, errors, collected, ds>>

(***************************************************************************)
(* The pool: at most args.workers calls run at a time, taken in the order  *)
(* they were submitted.                                                    *)
(***************************************************************************)
Running == {i \in DOMAIN task : task[i].pc \notin {"pending", "done"}}

Apply(i, r) ==
    /\ task' = [task EXCEPT ![i] = r.t]
    /\ fs' = r.fs
    /\ out_dir_exists' = (out_dir_exists \/ r.mkdir)
    /\ UNCHANGED <<envVars, mainVars, ds>>

RunCheck(i) ==
    /\ task[i].pc = "pending"
    /\ \A j \in 1..(i - 1) : task[j].pc # "pending"
    /\ Cardinality(Running) < args.workers
    /\ Apply(i, ProcessOneCheck(task[i], fs))

RunDecode(i) ==
    /\ task[i].pc = "decode"
    /\ Apply(i, ProcessOneDecode(task[i], fs))

RunSaveJpeg(i) ==
    /\ task[i].pc = "save_jpeg"
    /\ Apply(i, SaveAsJpeg(task[i], fs))

RunHeifRequire(i) ==
    /\ task[i].pc = "save_heif"
    /\ Apply(i, SaveAsHeifRequire(task[i], fs))

RunHeifFmt(i) ==
    /\ task[i].pc = "heif_fmt"
    /\ Apply(i, SaveAsHeifFmt(task[i], fs))

RunHeifAlt(i) ==
    /\ task[i].pc = "heif_alt"
    /\ Apply(i, SaveAsHeifAlt(task[i], fs))

RunSize(i) ==
    /\ task[i].pc = "size"
    /\ Apply(i, ProcessOneSize(task[i], fs))

Next ==
    \/ MainRequireHeif
    \/ MainParseBg
    \/ MainWalk
    \/ MainCheckPiexif
    \/ MainSubmit
    \/ \E i \in DOMAIN task : MainCollect(i)
    \/ MainReport
    \/ \E i \in DOMAIN task : RunCheck(i)
    \/ \E i \in DOMAIN task : RunDecode(i)
    \/ \E i \in DOMAIN task : RunSaveJpeg(i)
    \/ \E i \in DOMAIN task : RunHeifRequire(i)
    \/ \E i \in DOMAIN task : RunHeifFmt(i)
    \/ \E i \in DOMAIN task : RunHeifAlt(i)
    \/ \E i \in DOMAIN task : RunSize(i)

Spec == Init /\ [][Next]_vars

(***************************************************************************)
(* _save_as_heif on its own: called on a decoded raster, with or without   *)
(* the HEIF capability, for every behaviour of every strategy.             *)
(***************************************************************************)
HeifCalls ==
    { [args |-> Args("heif", BgWhite, FALSE, FALSE, ov, 1), heif |-> he,
       piexif |-> TRUE, codec |-> c, tree |-> <<Catalogue[k]>>,
       outdir |-> "empty"] :
        ov \in BOOLEAN, he \in BOOLEAN, c \in {d \in Codecs : d.JPEG = SaveOk},
        k \in {1, 5} }

InitHeif ==
    \E job \in HeifCalls :
        /\ args = job.args
        /\ HEIF_ENABLED = job.heif
        /\ piexif_ok = job.piexif
        /\ codec = job.codec
        /\ in_dir = job.tree
        /\ out_dir_exists = TRUE
        /\ fs = OutDir(job.outdir)
        /\ fs0 = OutDir(job.outdir)
        /\ out_dir_existed = TRUE
        /\ pc = "collect"
        /\ exit_code = -1
        /\ exit_reason = "running"
        /\ bg_rgb = <<255, 255, 255>>
        /\ inputs = walk_inputs(job.tree)
        /\ task = [i \in 1..1 |->
                     ProcessOneDecode(
                         [NewTask(job.tree[1].path) EXCEPT !.pc = "decode"],
                         OutDir(job.outdir)).t]
        /\ before_sum = 0
        /\ after_sum = 0
        /\ errors = <<>>
        /\ collected = <<>>
        /\ ds = [w |-> 1, h |-> 1, max_edge |-> 1, out |-> <<>>]

NextHeif ==
    \/ \E i \in DOMAIN task : RunHeifRequire(i)
    \/ \E i \in DOMAIN task : RunHeifFmt(i)
    \/ \E i \in DOMAIN task : RunHeifAlt(i)

SpecHeif == InitHeif /\ [][NextHeif]_vars

(***************************************************************************)
(* downscale on its own: any raster size and any --max-edge in the bound.  *)
(***************************************************************************)
InitDownscale ==
    /\ args = Args("jpg", BgWhite, FALSE, FALSE, FALSE, 1)
    /\ HEIF_ENABLED = TRUE
    /\ piexif_ok = TRUE
    /\ codec = CodecOk
    /\ in_dir = <<>>
    /\ out_dir_exists = FALSE
    /\ fs = OutDir("absent")
    /\ fs0 = OutDir("absent")
    /\ out_dir_existed = FALSE
    /\ pc = "downscale"
    /\ exit_code = -1
    /\ exit_reason = "running"
    /\ bg_rgb = <<>>
    /\ inputs = <<>>
    /\ task = <<>>
    /\ before_sum = 0
    /\ after_sum = 0
    /\ errors = <<>>
    /\ collected = <<>>
    /\ ds \in [w : 1..MaxDim, h : 1..MaxDim, max_edge : 1..MaxDim,
               out : {<<>>}]

ApplyDownscale ==
    /\ ds.out = <<>>
    /\ ds' = [ds EXCEPT !.out = downscale(ds.w, ds.h, ds.max_edge)]
    /\ UNCHANGED <<envVars, mainVars, out_dir_exists, fs, task>>

NextDownscale == ApplyDownscale

SpecDownscale == InitDownscale /\ [][NextDownscale]_vars

(***************************************************************************)
(* The properties checked.                                                 *)
(***************************************************************************)
\* What an outcome tuple says of its file.
IsFailed(r) == r.err # NoErr

IsSkipped(r) == r.err = NoErr /\ r.after = 0

IsSucceeded(r) == r.err = NoErr /\ r.after > 0

Done(i) == task[i].pc = "done"

\* A file whose pipeline raised.
Raised(i) == task[i].raised # NoError

\* --bg is white or black, or three integers each in 0..255.
BgValid(bg) ==
    \/ Len(bg) = 1 /\ ~bg[1].int /\ Lower(bg[1].text) \in {"white", "black"}
    \/ /\ Len(bg) = 3
       /\ \A i \in 1..3 : bg[i].int /\ bg[i].val \in 0..255

HeifMissing == args.out_format = "heif" /\ ~HEIF_ENABLED

\* Nothing of the job has touched a file: no input enumerated, no call
\* submitted, the output directory as it was.
Untouched ==
    /\ inputs = <<>>
    /\ task = <<>>
    /\ fs = fs0
    /\ out_dir_exists = out_dir_existed

\* A job-level fatal condition holds: the run cannot get to the pool.
JobLevelFatal ==
    \/ HeifMissing
    \/ ~BgValid(args.bg)
    \/ walk_inputs(in_dir) # <<>> /\ PiexifMissing

\* C1: a run that passes the job-level validation exits 10 if a file
\* Failed, 1 if no input file was discovered, 0 otherwise; a run in which a
\* file Failed never exits 0.
C1_ExitStatus ==
    /\ (pc = "exit" /\ ~JobLevelFatal) =>
          exit_code = (IF \E i \in DOMAIN task : Raised(i) THEN 10
                       ELSE IF walk_inputs(in_dir) = <<>> THEN 1
                       ELSE 0)
    /\ (pc = "exit" /\ \E i \in DOMAIN task : Raised(i)) => exit_code # 0

\* C1's case: a run has ended with status 10, one file Failed and another
\* Succeeded.
C1_Witness ==
    /\ pc = "exit"
    /\ exit_code = 10
    /\ \E i \in DOMAIN task : Raised(i)
    /\ \E i \in DOMAIN task : IsSucceeded(task[i].result)

RECURSIVE Distinct(_)
Distinct(q) ==
    IF q = <<>> THEN TRUE
    ELSE (\A k \in 1..Len(Tail(q)) : Tail(q)[k] # Head(q)) /\ Distinct(Tail(q))

\* Input i shares its destination with no other input.
OwnDestination(i) ==
    \A j \in DOMAIN task : j # i => OutName(inputs[j]) # OutName(inputs[i])

StatusOf(reason) ==
    CASE reason = "heif_unavailable" -> UncaughtExceptionStatus
      [] reason = "invalid_bg"       -> ExitInvalidBg
      [] reason = "no_inputs"        -> ExitNoInputs
      [] reason = "piexif_missing"   -> ExitPiexifMissing
      [] reason = "errors"           -> ExitErrors
      [] OTHER                       -> ExitSuccess

ExitReasons ==
    {"heif_unavailable", "invalid_bg", "no_inputs", "piexif_missing", "errors",
     "success"}

\* C3: a job-level fatal condition ends the run before any call is
\* submitted, with an exit status no other way of ending a run has; a
\* missing HEIF capability ends it with no input enumerated and no output
\* directory created.
C3_FatalOwnStatus ==
    /\ exit_reason \in {"heif_unavailable", "invalid_bg", "piexif_missing"} =>
          /\ task = <<>>
          /\ fs = fs0
          /\ out_dir_exists = out_dir_existed
          /\ \A r \in ExitReasons \ {exit_reason} : exit_code # StatusOf(r)
    /\ exit_reason = "heif_unavailable" => Untouched
    /\ (task # <<>> \/ pc \in {"submit", "collect", "report"}) => ~JobLevelFatal

\* The parts of C3 that hold: the fatal conditions are found before any call
\* is submitted, and a missing HEIF capability leaves everything untouched.
C3_FatalBeforeDispatch ==
    /\ exit_reason \in {"heif_unavailable", "invalid_bg", "piexif_missing"} =>
          /\ task = <<>>
          /\ fs = fs0
          /\ out_dir_exists = out_dir_existed
    /\ exit_reason = "heif_unavailable" => Untouched
    /\ (task # <<>> \/ pc \in {"submit", "collect", "report"}) => ~JobLevelFatal

\* C4 as stated: an invalid --bg ends the run with status 2 before any file
\* is touched, whatever the other options.
C4_InvalidBgExits2 ==
    ~BgValid(args.bg) =>
        /\ Untouched
        /\ pc = "exit" => exit_code = 2

\* C4 as amended: an invalid --bg ends the run before any file is touched,
\* with status 2 unless HEIF output is requested and the HEIF capability is
\* missing, when the HEIF check, which comes first, ends the run with the
\* status of an uncaught exception.
C4_InvalidBgExits2UnlessHeifMissing ==
    ~BgValid(args.bg) =>
        /\ Untouched
        /\ pc \in {"require_heif", "parse_bg", "exit"}
        /\ pc = "exit" =>
              exit_code = (IF HeifMissing THEN UncaughtExceptionStatus ELSE 2)

\* C4's case: HEIF output with the capability present, the wrong number of
\* components in --bg, files to process: the run has ended with status 2.
C4_Witness ==
    /\ pc = "exit"
    /\ exit_code = 2
    /\ Len(args.bg) = 2
    /\ args.out_format = "heif"
    /\ walk_inputs(in_dir) # <<>>

InPipeline(i) ==
    task[i].pc \in {"decode", "save_jpeg", "save_heif", "heif_fmt", "heif_alt",
                    "size"}

\* C5: no two calls are between their exists check and their size check for
\* the same destination path.
C5_NoInterleavingOnDestination ==
    \A i, j \in DOMAIN task :
        (i # j /\ InPipeline(i) /\ InPipeline(j)) =>
            OutName(inputs[i]) # OutName(inputs[j])

RECURSIVE SumOver(_, _)
SumOver(q, field) ==
    IF q = <<>> THEN 0
    ELSE LET r == task[Head(q)].result
         IN  (IF IsSucceeded(r) THEN r[field] ELSE 0) + SumOver(Tail(q), field)

\* C6: a file is Skipped exactly when its destination existed at the check
\* and --overwrite is not given; a Skipped file is not decoded, writes
\* nothing, is no error and adds nothing to the totals, which are the sums
\* over the Succeeded outcomes collected.
C6_Skipped ==
    /\ \A i \in DOMAIN task :
          Done(i) =>
             /\ IsSkipped(task[i].result) <=>
                   (task[i].saw_exists /\ ~args.overwrite)
             /\ IsSkipped(task[i].result) =>
                   /\ ~task[i].decoded
                   /\ task[i].writes = 0
                   /\ task[i].attempts = <<>>
                   /\ ~Raised(i)
                   /\ \A k \in 1..Len(errors) : errors[k].in_path # inputs[i]
                   /\ fs[OutName(inputs[i])] # Absent
                   /\ (\A j \in DOMAIN task :
                          OutName(inputs[j]) = OutName(inputs[i]) =>
                              task[j].writes = 0)
                      => fs[OutName(inputs[i])] = fs0[OutName(inputs[i])]
    /\ before_sum = SumOver(collected, "before")
    /\ after_sum = SumOver(collected, "after")

\* C6's case: a run has ended in which one file was Skipped and another
\* Succeeded.
C6_Witness ==
    /\ pc = "exit"
    /\ before_sum > 0
    /\ \E i, j \in DOMAIN task :
          /\ IsSkipped(task[i].result)
          /\ IsSucceeded(task[j].result)
          /\ Done(i)
          /\ Done(j)

\* C7: the outcome of a file, and what the run leaves at its destination,
\* are those of process_one run on that file alone from the output
\* directory as the job found it.
C7_Independent ==
    \A i \in DOMAIN task :
        LET alone == process_one(inputs[i], fs0)
        IN  /\ Done(i) => task[i].result = alone.t.result
            /\ pc = "exit" =>
                  fs[OutName(inputs[i])] = alone.fs[OutName(inputs[i])]

\* What holds of C7: a file that shares its destination with no other input
\* has the outcome and the destination of process_one run on it alone.
C7_IndependentUnlessShared ==
    \A i \in DOMAIN task :
        OwnDestination(i) =>
        LET alone == process_one(inputs[i], fs0)
        IN  /\ Done(i) => task[i].result = alone.t.result
            /\ pc = "exit" =>
                  fs[OutName(inputs[i])] = alone.fs[OutName(inputs[i])]

Abs(n) == IF n < 0 THEN -n ELSE n

\* n * m / l is within half a pixel of r, or r is the floor 1.
Nearest(r, n, m, l) == 2 * Abs(r * l - n * m) <= l \/ (r = 1 /\ n * m < l)

C8_Truncates ==
    ds.out # <<>> =>
        LET l == Max2(ds.w, ds.h)
        IN  IF l <= ds.max_edge THEN ds.out = <<ds.w, ds.h>>
            ELSE /\ \A k \in 1..2 : ds.out[k] >= 1
                 /\ ds.out[1] * l <= Max2(ds.w * ds.max_edge, l)
                 /\ ds.out[2] * l <= Max2(ds.h * ds.max_edge, l)
                 /\ Abs(ds.out[1] * l - ds.w * ds.max_edge) <= l
                 /\ Abs(ds.out[2] * l - ds.h * ds.max_edge) <= l
                 /\ Max2(ds.out[1], ds.out[2]) \in {ds.max_edge - 1, ds.max_edge}
                    \/ ds.max_edge = 1

\* The strategies of _save_as_heif, in the order C9 gives.
StrategyOrder == <<"HEIF", "HEIC", "from_pillow">>

IsPrefix(a, b) == Len(a) <= Len(b) /\ a = SubSeq(b, 1, Len(a))

Returned(t) == t.pc = "size"

Failed(t) == t.pc = "done" /\ t.raised # NoError

\* C9: without the HEIF capability _save_as_heif fails and attempts nothing;
\* with it the strategies are attempted in the order HEIF, HEIC,
\* from_pillow (only if the library has it); it returns at the first one
\* that does not raise and attempts none after; when all raise it fails with
\* an error quoting the error of the last strategy attempted.
C9_HeifStrategies ==
    \A i \in DOMAIN task :
        LET t == task[i]
            n == Len(t.attempts)
        IN  /\ IsPrefix(t.attempts, StrategyOrder)
            /\ ~HEIF_ENABLED =>
                  /\ t.attempts = <<>>
                  /\ t.writes = 0
                  /\ t.pc \in {"save_heif", "done"}
                  /\ t.pc = "done" =>
                        t.raised.type = "RuntimeError" /\ t.raised.last = ""
            /\ (n > 0 /\ t.attempts[n] = "from_pillow") => codec.has_from_pillow
            /\ \A k \in 1..(n - 1) : SaveOutcome(t, t.attempts[k]).raised
            /\ Returned(t) => n > 0 /\ ~SaveOutcome(t, t.attempts[n]).raised
            /\ (n > 0 /\ ~SaveOutcome(t, t.attempts[n]).raised) => Returned(t)
            /\ (Failed(t) /\ HEIF_ENABLED) =>
                  /\ n = (IF codec.has_from_pillow THEN 3 ELSE 2)
                  /\ \A k \in 1..n : SaveOutcome(t, t.attempts[k]).raised
                  /\ t.raised.type = "RuntimeError"
                  /\ t.raised.last = t.attempts[n]
                  /\ t.result.err = [in_path |-> t.in_path, cause |-> t.raised]

\* C9's case: HEIF raised, HEIC raised, the library has no from_pillow: the
\* call has failed quoting HEIC's error.
C9_Witness ==
    \E i \in DOMAIN task :
        /\ HEIF_ENABLED
        /\ ~codec.has_from_pillow
        /\ Failed(task[i])
        /\ task[i].attempts = <<"HEIF", "HEIC">>
        /\ task[i].raised.last = "HEIC"

\* C10: when the run has ended, a destination that did not exist before it
\* and whose inputs all Failed does not exist.
C10_FailedLeavesNoFile ==
    pc = "exit" =>
        \A n \in OutNames :
            LET to == {i \in DOMAIN task : OutName(inputs[i]) = n}
            IN  (fs0[n] = Absent /\ to # {} /\ \A i \in to : Raised(i))
                    => fs[n] = Absent
====
